---- MODULE Spec2Model ----
(***************************************************************************)
(* Model of libqtile/backend/wayland/window.py: the Window entity, its     *)
(* float state machine, placement, the compositor's mapped-window list and *)
(* the popup hierarchy.  Every handler is one action; a handler that       *)
(* raises keeps the assignments made before the raise and records the      *)
(* exception in out.fault.                                                 *)
(***************************************************************************)
EXTENDS Integers, Sequences, FiniteSets, TLC

\* ------------------------------------------------------------------ bounds
\* largest x and y coordinate a command moves a window to
MaxCoord == 1
\* largest width/height a surface commits
MaxSize == 1

\* ------------------------------------------------------------ environment
Windows == {"w1", "w2", "w3"}
\* windows the window-manager commands of the float machine are sent to
Commanded == {"w1"}
Popups == {"p1", "p2", "p3"}
Objects == Windows \cup Popups

\* base.FloatStates
NOT_FLOATING == "NOT_FLOATING"
FLOATING == "FLOATING"
FULLSCREEN == "FULLSCREEN"
MAXIMIZED == "MAXIMIZED"
MINIMIZED == "MINIMIZED"
FloatStates == {NOT_FLOATING, FLOATING, FULLSCREEN, MAXIMIZED, MINIMIZED}

\* Window.__init__: self._group = 0 (no workspace)
NoGroup == "0"
Groups == {"a", "b", "c"}
NoScreen == "None"
Screens == {"s1", "s2"}

\* two outputs side by side, 1 wide and 2 high; s1 reserves a bar of height
\* 1 at its top, s2 shows workspace "b"
ScreenGeom ==
    [s1 |-> [x |-> 0, y |-> 0, width |-> 1, height |-> 2,
             dx |-> 0, dy |-> 1, dwidth |-> 1, dheight |-> 1, group |-> "a"],
     s2 |-> [x |-> 1, y |-> 0, width |-> 1, height |-> 2,
             dx |-> 1, dy |-> 0, dwidth |-> 1, dheight |-> 2, group |-> "b"]]

\* group.screen: the output showing a workspace, None for a hidden workspace
GroupScreen(g) ==
    IF g = "a" THEN "s1" ELSE IF g = "b" THEN "s2" ELSE NoScreen

\* qtile.find_closest_screen: the output containing the point, else the
\* nearest one (the outputs tile the x axis)
find_closest_screen(px, py) ==
    IF px < ScreenGeom["s2"].x THEN "s1" ELSE "s2"

XCoords == 0..MaxCoord
YCoords == 0..MaxCoord
Sizes == 0..MaxSize

\* an optional argument: <<>> is Python's None, <<v>> the value v
None == <<>>
Some(v) == <<v>>

Range(s) == {s[i] : i \in 1..Len(s)}

VARIABLES
    mapped_windows,   \* core.mapped_windows: the stacking list
    mapped,           \* Window._mapped
    float_state,      \* Window._float_state
    group,            \* Window._group
    x, y,             \* Window.x, Window.y
    float_x, float_y, float_width, float_height,   \* the float memory
    width, height,    \* surface.surface.current.width / height
    managed,          \* membership of qtile.windows_map
    listening,        \* the object's listeners are attached
    released,         \* number of times the object's listeners were released
    focused_surface,  \* seat.keyboard_state.focused_surface
    seat_destroyed,   \* seat.destroyed
    popups,           \* .popups of a window or popup
    parent,           \* XdgPopupWindow.parent, NoParent before creation
    output,           \* XdgPopupWindow.output
    output_box,       \* XdgPopupWindow.output_box
    geometry,         \* origin of xdg_popup.base.get_geometry(), in the parent
    layers,           \* output.layers: the per-layer lists of the output
    pending_layer,    \* surface.client_pending.layer of a layer surface
    static_mapped,    \* Static._mapped
    out               \* what the last handler did to its collaborators

vars == <<mapped_windows, mapped, float_state, group, x, y, float_x, float_y,
          float_width, float_height, width, height, managed,
          listening, released, focused_surface, seat_destroyed, popups,
          parent, output, output_box, geometry, layers, pending_layer,
          static_mapped, out>>

NoParent == "none"

\* the layer surfaces, in the order they were constructed
Statics == {"t1", "t2"}
StaticsInOrder == <<"t1", "t2">>
\* the four layers of the layer shell, bottom to top
LayerNames == {"background", "bottom", "top", "overlay"}
NoBox == [x |-> 0, y |-> 0, width |-> 0, height |-> 0]

\* the record of one handler run: the operation, its window and argument,
\* the float state before it, the exception it raised, the number of
\* float_change hooks fired, the group.mark_floating calls, the
\* surface.set_size requests and the qtile.focus_screen calls it made
Out(op, w, arg, pre, fault, fired, marked, size, focus_screen) ==
    [op |-> op, win |-> w, arg |-> arg, pre |-> pre, fault |-> fault,
     fired |-> fired, marked |-> marked, size |-> size,
     focus_screen |-> focus_screen]

NoSurface == "none"
NoFault == "none"

\* ------------------------------------------------- the handler-local state
\* the fields of window w (and of the core, qtile and seat) a handler reads
\* and writes, with the calls it made so far
Self(w) ==
    [x |-> x[w], y |-> y[w], fs |-> float_state[w],
     fw |-> float_width[w], fh |-> float_height[w],
     group |-> group[w],
     list |-> mapped_windows, mapped |-> mapped[w],
     focus |-> focused_surface,
     fault |-> NoFault, fired |-> 0, marked |-> <<>>, size |-> <<>>,
     focus_screen |-> <<>>]

\* list.remove(w): drops the first occurrence of w (w is in l)
ListRemove(l, w) ==
    LET i == CHOOSE k \in 1..Len(l) : l[k] = w /\ \A j \in 1..(k - 1) : l[j] # w
    IN  SubSeq(l, 1, i - 1) \o SubSeq(l, i + 1, Len(l))

\* mapped (setter) without the "not in" test: a repeated map appends again
mapped_setter_dup(s, w, m) ==
    [s EXCEPT !.mapped = m,
              !.list = IF m
                       THEN Append(@, w)
                       ELSE IF w \in Range(@) THEN ListRemove(@, w) ELSE @]

\* Window.mapped (setter)
mapped_setter(s, w, m) ==
    [s EXCEPT !.mapped = m,
              !.list = IF m
                       THEN IF w \in Range(@) THEN @ ELSE Append(@, w)
                       ELSE IF w \in Range(@) THEN ListRemove(@, w) ELSE @]

\* core.focus_window(win): gives the keyboard focus to the window's surface
focus_window(s, w) ==
    IF seat_destroyed THEN s ELSE [s EXCEPT !.focus = w]

\* Window._on_map
on_map(s, w) == focus_window(mapped_setter(s, w, TRUE), w)

\* _on_unmap that also marks the unmapped window as minimized
on_unmap_minimizes(s, w) ==
    LET s1 == mapped_setter(s, w, FALSE)
    IN  [s1 EXCEPT !.fs = MINIMIZED]

\* Window._on_unmap
on_unmap(s, w) ==
    LET s1 == mapped_setter(s, w, FALSE)
    IN  IF ~seat_destroyed /\ s1.focus = w
        THEN [s1 EXCEPT !.focus = NoSurface]
        ELSE s1

\* Window.hide: emits the surface's unmap signal, which runs _on_unmap
hide(s, w) == IF s.mapped THEN on_unmap(s, w) ELSE s

\* Window.unhide: emits the surface's map signal, which runs _on_map
unhide(s, w) == IF ~s.mapped THEN on_map(s, w) ELSE s

\* a margin argument of place: None, an int, or [top, right, bottom, left]
NoMargin == [kind |-> "none", v |-> <<>>]
IntMargin(m) == [kind |-> "int", v |-> <<m>>]
ListMargin(l) == [kind |-> "list", v |-> l]

\* place, lines 315-321: the margin as a 4-list, [0,0,0,0] standing for None
Margin4(margin) ==
    IF margin.kind = "none" THEN <<0, 0, 0, 0>>
    ELSE IF margin.kind = "int"
         THEN <<margin.v[1], margin.v[1], margin.v[1], margin.v[1]>>
         ELSE margin.v

\* the margin adjustment with right and left exchanged
PlaceRect_sides_swapped(px, py, pw, ph, margin) ==
    LET m == Margin4(margin)
    IN  [x |-> px + m[2], y |-> py + m[1],
         width |-> pw - (m[2] + m[4]), height |-> ph - (m[1] + m[3])]

\* place, lines 315-321: the rectangle applied for a requested one
PlaceRect(px, py, pw, ph, margin) ==
    LET m == Margin4(margin)
    IN  [x |-> px + m[4], y |-> py + m[1],
         width |-> pw - (m[2] + m[4]), height |-> ph - (m[1] + m[3])]

\* Window.place
place(s, w, px, py, pw, ph, above, margin) ==
    LET r  == PlaceRect(px, py, pw, ph, margin)
        s1 == [s EXCEPT !.x = r.x, !.y = r.y,
                        !.size = Append(@, <<r.width, r.height>>)]
    IN  IF above
        THEN IF w \in Range(s1.list)
             THEN [s1 EXCEPT !.list = Append(ListRemove(@, w), w)]
             ELSE [s1 EXCEPT !.fault = "ValueError"]
        ELSE s1

\* _reconfigure_floating without the test that the state changes: it marks
\* and fires on every call
reconfigure_floating_always_fires(s, w, px, py, pw, ph, new_float_state) ==
    LET s1 == IF new_float_state = MINIMIZED
              THEN hide(s, w)
              ELSE place(s, w, px, py, pw, ph, TRUE, NoMargin)
    IN  IF s1.fault # NoFault THEN s1
        ELSE [s1 EXCEPT !.fs = new_float_state,
                        !.marked = IF s1.group # NoGroup
                                   THEN Append(@, TRUE) ELSE @,
                        !.fired = @ + 1]

\* Window._reconfigure_floating (and _enablefloating, which only forwards)
reconfigure_floating(s, w, px, py, pw, ph, new_float_state) ==
    LET s1 == IF new_float_state = MINIMIZED
              THEN hide(s, w)
              ELSE place(s, w, px, py, pw, ph, TRUE, NoMargin)
    IN  IF s1.fault # NoFault THEN s1
        ELSE IF s1.fs # new_float_state
             THEN [s1 EXCEPT !.fs = new_float_state,
                             !.marked = IF s1.group # NoGroup
                                        THEN Append(@, TRUE) ELSE @,
                             !.fired = @ + 1]
             ELSE s1

\* Window.floating (setter)
floating_setter(s, w, do_float) ==
    IF do_float /\ s.fs = NOT_FLOATING
    THEN IF s.group # NoGroup /\ GroupScreen(s.group) # NoScreen
         THEN LET screen == ScreenGeom[GroupScreen(s.group)]
              IN  reconfigure_floating(s, w, screen.x + float_x[w],
                                       screen.y + float_y[w], s.fw, s.fh,
                                       FLOATING)
         ELSE [s EXCEPT !.fs = FLOATING]
    ELSE IF (~do_float) /\ s.fs # NOT_FLOATING
         THEN LET s1 == IF s.fs = FLOATING
                        THEN [s EXCEPT !.fw = width[w], !.fh = height[w]]
                        ELSE s
                  s2 == [s1 EXCEPT !.fs = NOT_FLOATING]
              IN  IF s2.group = NoGroup
                  THEN [s2 EXCEPT !.fault = "AttributeError"]
                  ELSE [s2 EXCEPT !.marked = Append(@, FALSE),
                                  !.fired = @ + 1]
         ELSE s

\* lines 258-259 and 279-280: self.group.screen or find_closest_screen(x, y)
screen_or_closest(s) ==
    IF GroupScreen(s.group) # NoScreen
    THEN GroupScreen(s.group)
    ELSE find_closest_screen(s.x, s.y)

\* Window.fullscreen (setter)
fullscreen_setter(s, w, do_full) ==
    IF do_full
    THEN IF s.group = NoGroup
         THEN [s EXCEPT !.fault = "AttributeError"]
         ELSE LET screen == ScreenGeom[screen_or_closest(s)]
              IN  reconfigure_floating(s, w, screen.x, screen.y, screen.width,
                                       screen.height, FULLSCREEN)
    ELSE IF s.fs = FULLSCREEN THEN floating_setter(s, w, FALSE) ELSE s

\* Window.maximized (setter)
maximized_setter(s, w, do_maximize) ==
    IF do_maximize
    THEN IF s.group = NoGroup
         THEN [s EXCEPT !.fault = "AttributeError"]
         ELSE LET screen == ScreenGeom[screen_or_closest(s)]
              IN  reconfigure_floating(s, w, screen.dx, screen.dy,
                                       screen.dwidth, screen.dheight, MAXIMIZED)
    ELSE IF s.fs = MAXIMIZED THEN floating_setter(s, w, FALSE) ELSE s

\* the minimized setter going through place, as the other setters do,
\* instead of hide
minimized_setter_places(s, w, do_minimize) ==
    IF do_minimize
    THEN IF s.fs # MINIMIZED
         THEN [place(s, w, 0, 0, 0, 0, FALSE, NoMargin) EXCEPT !.fs = MINIMIZED]
         ELSE s
    ELSE IF s.fs = MINIMIZED THEN floating_setter(s, w, FALSE) ELSE s

\* the minimized setter without the test that the window is not MINIMIZED yet
minimized_setter_unguarded(s, w, do_minimize) ==
    IF do_minimize
    THEN reconfigure_floating(s, w, 0, 0, 0, 0, MINIMIZED)
    ELSE IF s.fs = MINIMIZED THEN floating_setter(s, w, FALSE) ELSE s

\* Window.minimized (setter)
minimized_setter(s, w, do_minimize) ==
    IF do_minimize
    THEN IF s.fs # MINIMIZED
         THEN reconfigure_floating(s, w, 0, 0, 0, 0, MINIMIZED)
         ELSE s
    ELSE IF s.fs = MINIMIZED THEN floating_setter(s, w, FALSE) ELSE s

\* the size passed on as computed, with no clamp
Max0_unclamped(v) == v

\* _tweak_float, lines 353-356: if h < 0: h = 0; if w < 0: w = 0
Max0(v) == IF v < 0 THEN 0 ELSE v

\* Window._tweak_float; ox, oy, ow, oh are the optional x, y, w, h
tweak_float(s, w, ox, oy, dx, dy, ow, oh, dw, dh) ==
    LET nx == (IF ox = None THEN s.x ELSE ox[1]) + dx
        ny == (IF oy = None THEN s.y ELSE oy[1]) + dy
        nw == Max0((IF ow = None THEN width[w] ELSE ow[1]) + dw)
        nh == Max0((IF oh = None THEN height[w] ELSE oh[1]) + dh)
        screen == find_closest_screen(s.x + (width[w] \div 2),
                                      s.y + (height[w] \div 2))
        s1 == IF s.group # NoGroup /\ screen # GroupScreen(s.group)
              THEN [s EXCEPT !.group = ScreenGeom[screen].group,
                             !.focus_screen = Append(@, screen)]
              ELSE s
    IN  reconfigure_floating(s1, w, nx, ny, nw, nh, FLOATING)

\* qtile.groups_map.get(group_name), None for a name that is no group
GroupNames == Groups \cup {"nosuch"}

\* togroup that hides the window before it looks the name up
togroup_hides_first(s, w, name, current_group) ==
    LET g == IF name = None THEN current_group ELSE name[1]
        s1 == hide(s, w)
    IN  IF g \notin Groups
        THEN [s1 EXCEPT !.fault = "CommandError"]
        ELSE IF s.group # g THEN [s1 EXCEPT !.group = g] ELSE s

\* Window.togroup with switch_group=False; name is the optional group_name
\* and current_group is qtile.current_group
togroup(s, w, name, current_group) ==
    LET g == IF name = None THEN current_group ELSE name[1]
    IN  IF g \notin Groups
        THEN [s EXCEPT !.fault = "CommandError"]
        ELSE IF s.group # g
             THEN LET s1 == hide(s, w)
                      s2 == IF s1.group # NoGroup
                                /\ GroupScreen(s1.group) # NoScreen
                            THEN [s1 EXCEPT !.x = @ - ScreenGeom[GroupScreen(s1.group)].x]
                            ELSE s1
                      s3 == IF GroupScreen(g) # NoScreen
                                /\ s2.x < ScreenGeom[GroupScreen(g)].x
                            THEN [s2 EXCEPT !.x = @ + ScreenGeom[GroupScreen(g)].x]
                            ELSE s2
                  IN  [s3 EXCEPT !.group = g]
             ELSE s

\* cmd_bring_to_front without the remove: the window is appended again
bring_to_front_noremove(s, w) ==
    IF s.mapped THEN [s EXCEPT !.list = Append(@, w)] ELSE s

\* Window.cmd_bring_to_front
bring_to_front(s, w) ==
    IF s.mapped
    THEN IF w \in Range(s.list)
         THEN [s EXCEPT !.list = Append(ListRemove(@, w), w)]
         ELSE [s EXCEPT !.fault = "ValueError"]
    ELSE s

\* ---------------------------------------------------------------- actions
\* the handler's final local state becomes the state of the program
Return(op, w, arg, s) ==
    /\ x' = [x EXCEPT ![w] = s.x]
    /\ y' = [y EXCEPT ![w] = s.y]
    /\ float_state' = [float_state EXCEPT ![w] = s.fs]
    /\ float_width' = [float_width EXCEPT ![w] = s.fw]
    /\ float_height' = [float_height EXCEPT ![w] = s.fh]
    /\ group' = [group EXCEPT ![w] = s.group]
    /\ mapped_windows' = s.list
    /\ mapped' = [mapped EXCEPT ![w] = s.mapped]
    /\ focused_surface' = s.focus
    /\ out' = Out(op, w, arg, float_state[w], s.fault, s.fired, s.marked, s.size,
                   s.focus_screen)

Frame == UNCHANGED <<float_x, float_y, width, height, managed, listening,
                     released, seat_destroyed, popups, parent, output,
                     output_box, geometry, layers, pending_layer,
                     static_mapped>>

Init ==
    /\ mapped_windows = <<>>
    /\ mapped = [w \in Windows |-> FALSE]
    /\ float_state = [w \in Windows |-> NOT_FLOATING]
    /\ group = [w \in Windows |-> NoGroup]
    /\ x = [w \in Windows |-> 0]
    /\ y = [w \in Windows |-> 0]
    /\ width = [w \in Windows |-> 0]
    /\ height = [w \in Windows |-> 0]
    /\ float_x = x
    /\ float_y = y
    /\ float_width = width
    /\ float_height = height
    /\ managed = [w \in Windows |-> TRUE]
    /\ listening = [o \in Objects |-> o \in Windows]
    /\ released = [o \in Objects |-> 0]
    /\ focused_surface = NoSurface
    /\ seat_destroyed = FALSE
    /\ popups = [o \in Objects |-> <<>>]
    /\ parent = [p \in Popups |-> NoParent]
    /\ output = [p \in Popups |-> NoScreen]
    /\ output_box = [p \in Popups |-> NoBox]
    /\ geometry = [p \in Popups |-> <<0, 0>>]
    /\ pending_layer = [t \in Statics |-> "background"]
    /\ layers = [l \in LayerNames |->
                    SelectSeq(StaticsInOrder, LAMBDA t : pending_layer[t] = l)]
    /\ static_mapped = [t \in Statics |-> TRUE]
    /\ out = Out("init", "w1", FALSE, NOT_FLOATING, NoFault, 0, <<>>, <<>>, <<>>)

\* the surface's map signal reaches Window._on_map
OnMap(w) ==
    /\ listening[w]
    /\ Return("map", w, FALSE, on_map(Self(w), w))
    /\ Frame

\* the surface's unmap signal reaches Window._on_unmap
OnUnmap(w) ==
    /\ listening[w]
    /\ Return("unmap", w, FALSE, on_unmap(Self(w), w))
    /\ Frame

\* the client commits a buffer of size nw x nh; Window._on_commit only damages
OnCommit(w, nw, nh) ==
    /\ listening[w]
    /\ width' = [width EXCEPT ![w] = nw]
    /\ height' = [height EXCEPT ![w] = nh]
    /\ UNCHANGED <<mapped_windows, mapped, float_state, group, x, y, float_x,
                   float_y, float_width, float_height, managed,
                   listening, released, focused_surface, seat_destroyed,
                   popups, parent, output, output_box, geometry, layers, pending_layer,
                   static_mapped, out>>

\* Window._on_request_fullscreen; auto is qtile.config.auto_fullscreen
OnRequestFullscreen(w, auto, fullscreen) ==
    /\ listening[w]
    /\ Return("request_fullscreen", w, fullscreen,
              IF auto THEN fullscreen_setter(Self(w), w, fullscreen) ELSE Self(w))
    /\ Frame

\* cmd_enable_floating, cmd_disable_floating, cmd_toggle_floating
SetFloating(w, do_float) ==
    /\ managed[w]
    /\ Return("set_floating", w, do_float, floating_setter(Self(w), w, do_float))
    /\ Frame

\* cmd_enable_fullscreen, cmd_disable_fullscreen, cmd_toggle_fullscreen
SetFullscreen(w, do_full) ==
    /\ managed[w]
    /\ Return("set_fullscreen", w, do_full, fullscreen_setter(Self(w), w, do_full))
    /\ Frame

\* cmd_toggle_maximize
SetMaximized(w, do_maximize) ==
    /\ managed[w]
    /\ Return("set_maximized", w, do_maximize,
              maximized_setter(Self(w), w, do_maximize))
    /\ Frame

\* the minimized property set by the window manager
SetMinimized(w, do_minimize) ==
    /\ managed[w]
    /\ Return("set_minimized", w, do_minimize,
              minimized_setter(Self(w), w, do_minimize))
    /\ Frame

\* cmd_move_floating
CmdMoveFloating(w, dx, dy) ==
    /\ managed[w]
    /\ x[w] + dx \in XCoords /\ y[w] + dy \in YCoords
    /\ Return("move_floating", w, FALSE,
              tweak_float(Self(w), w, None, None, dx, dy, None, None, 0, 0))
    /\ Frame

\* cmd_resize_floating
CmdResizeFloating(w, dw, dh) ==
    /\ managed[w]
    /\ Return("resize_floating", w, FALSE,
              tweak_float(Self(w), w, None, None, 0, 0, None, None, dw, dh))
    /\ Frame

\* cmd_set_position_floating
CmdSetPositionFloating(w, px, py) ==
    /\ managed[w]
    /\ Return("set_position_floating", w, FALSE,
              tweak_float(Self(w), w, Some(px), Some(py), 0, 0, None, None, 0, 0))
    /\ Frame

\* cmd_set_size_floating
CmdSetSizeFloating(w, pw, ph) ==
    /\ managed[w]
    /\ Return("set_size_floating", w, FALSE,
              tweak_float(Self(w), w, None, None, 0, 0, Some(pw), Some(ph), 0, 0))
    /\ Frame

\* _tweak_float called with any of its arguments; mv is <<x, y, dx, dy>> and
\* sz is <<w, h, dw, dh>>, x, y, w and h optional
TweakFloat(w, mv, sz) ==
    /\ managed[w]
    /\ (IF mv[1] = None THEN x[w] ELSE mv[1][1]) + mv[3] \in XCoords
    /\ (IF mv[2] = None THEN y[w] ELSE mv[2][1]) + mv[4] \in YCoords
    /\ Return("tweak_float", w, sz,
              tweak_float(Self(w), w, mv[1], mv[2], mv[3], mv[4],
                          sz[1], sz[2], sz[3], sz[4]))
    /\ Frame

\* cmd_place
CmdPlace(w, px, py, pw, ph, above, margin) ==
    /\ managed[w]
    /\ PlaceRect(px, py, pw, ph, margin).x \in XCoords
    /\ PlaceRect(px, py, pw, ph, margin).y \in YCoords
    /\ Return("place", w, above, place(Self(w), w, px, py, pw, ph, above, margin))
    /\ Frame

\* cmd_bring_to_front
CmdBringToFront(w) ==
    /\ managed[w]
    /\ Return("bring_to_front", w, FALSE, bring_to_front(Self(w), w))
    /\ Frame

\* togroup / cmd_togroup; current_group is the workspace qtile shows on its
\* current output
Togroup(w, name, current_group) ==
    /\ managed[w]
    /\ Return("togroup", w, FALSE, togroup(Self(w), w, name, current_group))
    /\ Frame

\* Window.hide, called by the workspace that stops showing the window
Hide(w) ==
    /\ managed[w]
    /\ Return("hide", w, FALSE, hide(Self(w), w))
    /\ Frame

\* Window.unhide, called by the layout that shows the window
Unhide(w) ==
    /\ managed[w]
    /\ Return("unhide", w, FALSE, unhide(Self(w), w))
    /\ Frame

\* HasListeners.finalize_listeners: detaches every listener of the object
finalize_listeners(o) ==
    /\ listening' = [listening EXCEPT ![o] = FALSE]
    /\ released' = [released EXCEPT ![o] = @ + 1]

\* qtile.unmanage(wid): the window leaves its workspace and the window map;
\* the compositor's stacking list is not qtile's to change
unmanage(w) ==
    /\ managed' = [managed EXCEPT ![w] = FALSE]
    /\ group' = [group EXCEPT ![w] = NoGroup]

\* the surface's destroy signal reaches Window._on_destroy
OnDestroy(w) ==
    /\ listening[w]
    /\ unmanage(w)
    /\ finalize_listeners(w)
    /\ out' = Out("destroy", w, FALSE, float_state[w], NoFault, 0, <<>>, <<>>, <<>>)
    /\ UNCHANGED <<mapped_windows, mapped, float_state, x, y, float_x, float_y,
                   float_width, float_height, width, height,
                   focused_surface, seat_destroyed, popups, parent, output,
                   output_box, geometry, layers, pending_layer,
                   static_mapped>>

\* the compositor shuts down and destroys the seat
SeatDestroy ==
    /\ ~seat_destroyed
    /\ seat_destroyed' = TRUE
    /\ UNCHANGED <<mapped_windows, mapped, float_state, group, x, y, float_x,
                   float_y, float_width, float_height, width, height,
                   managed, listening, released,
                   focused_surface, popups, parent, output, output_box, geometry,
                   layers, pending_layer, static_mapped, out>>

\* the float state recorded for an object that has no float state machine
NoState == "none"

\* ------------------------------------------------- layer-shell statics
\* output.organise_layers: arranges the geometry of the layer surfaces; the
\* per-layer lists are changed by the surfaces' own handlers only
organise_layers(ls) == ls

\* Static.mapped (setter) of a layer surface t whose pending layer is l: the
\* new per-layer lists
static_mapped_setter(ls, t, l, m) ==
    organise_layers(
        [ls EXCEPT ![l] = IF m
                          THEN IF t \in Range(@) THEN @ ELSE Append(@, t)
                          ELSE IF t \in Range(@) THEN ListRemove(@, t) ELSE @])

StaticFrame == UNCHANGED <<mapped_windows, mapped, float_state, group, x, y,
                           float_x, float_y, float_width, float_height, width,
                           height, managed, listening, released,
                           seat_destroyed, popups, parent, output, output_box,
                           geometry>>

\* the layer surface's map signal reaches Static._on_map
StaticOnMap(t) ==
    /\ static_mapped' = [static_mapped EXCEPT ![t] = TRUE]
    /\ layers' = organise_layers(
                     static_mapped_setter(layers, t, pending_layer[t], TRUE))
    /\ out' = Out("static_map", t, FALSE, NoState, NoFault, 0, <<>>, <<>>, <<>>)
    /\ UNCHANGED <<pending_layer, focused_surface>>
    /\ StaticFrame

\* what lines 541-542 do for the layer surface t on a seat that is
\* destroyed: with no seat.destroyed test before them they read the focus of
\* a seat that is no more, so the handler either raises there, leaving the
\* focus as it was, or goes on as it does on a live seat
DestroyedSeatOutcomes(t) ==
    {[fault |-> "destroyed seat", focus |-> focused_surface],
     [fault |-> NoFault,
      focus |-> IF focused_surface = t THEN NoSurface ELSE focused_surface]}

\* the layer surface's unmap signal reaches Static._on_unmap
StaticOnUnmap(t) ==
    /\ static_mapped' = [static_mapped EXCEPT ![t] = FALSE]
    /\ layers' = organise_layers(
                     static_mapped_setter(layers, t, pending_layer[t], FALSE))
    /\ IF seat_destroyed
       THEN \E r \in DestroyedSeatOutcomes(t) :
               /\ focused_surface' = r.focus
               /\ out' = Out("static_unmap", t, FALSE, NoState, r.fault, 0,
                              <<>>, <<>>, <<>>)
       ELSE /\ focused_surface' = IF focused_surface = t THEN NoSurface
                                  ELSE focused_surface
            /\ out' = Out("static_unmap", t, FALSE, NoState, NoFault, 0,
                           <<>>, <<>>, <<>>)
    /\ UNCHANGED pending_layer
    /\ StaticFrame

\* the core gives the keyboard focus to the surface of a mapped layer surface
KeyboardFocus(t) ==
    /\ ~seat_destroyed
    /\ static_mapped[t]
    /\ focused_surface' = t
    /\ out' = Out("keyboard_focus", t, FALSE, NoState, NoFault, 0, <<>>, <<>>, <<>>)
    /\ UNCHANGED <<layers, pending_layer, static_mapped>>
    /\ StaticFrame

\* the client of the layer surface asks for another layer
SetPendingLayer(t, l) ==
    /\ pending_layer[t] # l
    /\ pending_layer' = [pending_layer EXCEPT ![t] = l]
    /\ out' = Out("set_layer", t, FALSE, NoState, NoFault, 0, <<>>, <<>>, <<>>)
    /\ UNCHANGED <<layers, static_mapped, focused_surface>>
    /\ StaticFrame

\* ------------------------------------------------------------------ popups

\* output_layout.closest_point: the point of the layout nearest to (px, py);
\* the layout is the two outputs side by side
Clamp(v, lo, hi) == IF v < lo THEN lo ELSE IF v > hi THEN hi ELSE v
closest_point(px, py) ==
    <<Clamp(px, ScreenGeom["s1"].x,
            ScreenGeom["s2"].x + ScreenGeom["s2"].width - 1),
      Clamp(py, ScreenGeom["s1"].y,
            ScreenGeom["s1"].y + ScreenGeom["s1"].height - 1)>>

\* output_layout.output_at: the output containing a point of the layout
output_at(lx, ly) == IF lx < ScreenGeom["s2"].x THEN "s1" ELSE "s2"

\* XdgPopupWindow.__init__, lines 600-602: the geometry g of the output with
\* its origin moved by (lx, ly)
translate_box(g, lx, ly) ==
    [x |-> g.x - lx, y |-> g.y - ly, width |-> g.width, height |-> g.height]

\* the constraint box taken relative to the parent window, not to the popup
first_level_box_from_window(w, bx, by) ==
    LET l == closest_point(x[w] + bx, y[w] + by)
        o == output_at(l[1], l[2])
    IN  [output |-> o, box |-> translate_box(ScreenGeom[o], x[w], y[w])]

\* XdgPopupWindow.__init__, lines 596-603: the output and the constraint box
\* of a first-level popup whose geometry starts at (bx, by) in its parent
first_level_box(w, bx, by) ==
    LET l == closest_point(x[w] + bx, y[w] + by)
        o == output_at(l[1], l[2])
    IN  [output |-> o, box |-> translate_box(ScreenGeom[o], l[1], l[2])]

\* the popup object a new_popup signal creates: the first unused one
NewPopup == IF parent["p1"] = NoParent THEN "p1"
            ELSE IF parent["p2"] = NoParent THEN "p2" ELSE "p3"

\* XdgPopupWindow.__init__ run by _on_new_popup of the object o
add_popup(o, p, bx, by, out_, box_) ==
    /\ parent[p] = NoParent
    /\ geometry' = [geometry EXCEPT ![p] = <<bx, by>>]
    /\ parent' = [parent EXCEPT ![p] = o]
    /\ output' = [output EXCEPT ![p] = out_]
    /\ output_box' = [output_box EXCEPT ![p] = box_]
    /\ listening' = [listening EXCEPT ![p] = TRUE]
    /\ popups' = [popups EXCEPT ![o] = Append(@, p)]

PopupFrame == UNCHANGED <<mapped_windows, mapped, float_state, group, x, y,
                          float_x, float_y, float_width, float_height, width,
                          height, managed, focused_surface,
                          seat_destroyed, layers, pending_layer,
                          static_mapped>>

\* the surface's new_popup signal reaches Window._on_new_popup
OnNewPopup(w, bx, by) ==
    /\ listening[w]
    /\ LET f == first_level_box(w, bx, by)
       IN  add_popup(w, NewPopup, bx, by, f.output, f.box)
    /\ out' = Out("new_popup", w, FALSE, NoState, NoFault, 0, <<>>, <<>>, <<>>)
    /\ UNCHANGED released
    /\ PopupFrame

\* the desktop position of the geometry of a popup: that of its parent,
\* moved by the popup's geometry in the parent
RECURSIVE position(_)
position(o) ==
    IF o \in Windows
    THEN <<x[o], y[o]>>
    ELSE LET pp == position(parent[o])
         IN  <<pp[1] + geometry[o][1], pp[2] + geometry[o][2]>>

\* _on_new_popup of a popup that builds the nested popup's box as the box of
\* a first-level popup is built, from the nested popup's own position
PopupOnNewPopup_own_box(p, bx, by) ==
    /\ listening[p]
    /\ LET pp == position(p)
           l == closest_point(pp[1] + bx, pp[2] + by)
       IN  add_popup(p, NewPopup, bx, by, output[p],
                     translate_box(ScreenGeom[output[p]], l[1], l[2]))
    /\ out' = Out("popup_new_popup", p, FALSE, NoState, NoFault, 0, <<>>, <<>>, <<>>)
    /\ UNCHANGED released
    /\ PopupFrame

\* the popup's new_popup signal reaches XdgPopupWindow._on_new_popup; the
\* nested popup's geometry starts at (bx, by) in the popup p
PopupOnNewPopup(p, bx, by) ==
    /\ listening[p]
    /\ add_popup(p, NewPopup, bx, by, output[p], output_box[p])
    /\ out' = Out("popup_new_popup", p, FALSE, NoState, NoFault, 0, <<>>, <<>>, <<>>)
    /\ UNCHANGED released
    /\ PopupFrame

\* XdgPopupWindow._on_map, _on_unmap and _on_commit damage the output
PopupOnSignal(p, sig) ==
    /\ listening[p]
    /\ out' = Out(sig, p, FALSE, NoState, NoFault, 0, <<>>, <<>>, <<>>)
    /\ UNCHANGED <<listening, released, popups, parent, output, output_box,
                   geometry>>
    /\ PopupFrame

\* XdgPopupWindow._on_destroy without the finalize_listeners call
PopupOnDestroy_keeps_listeners(p) ==
    /\ listening[p]
    /\ out' = Out("popup_destroy", p, FALSE, NoState, NoFault, 0, <<>>, <<>>, <<>>)
    /\ UNCHANGED <<listening, released, popups, parent, output, output_box,
                   geometry>>
    /\ PopupFrame

\* XdgPopupWindow._on_destroy
PopupOnDestroy(p) ==
    /\ listening[p]
    /\ finalize_listeners(p)
    /\ out' = Out("popup_destroy", p, FALSE, NoState, NoFault, 0, <<>>, <<>>, <<>>)
    /\ UNCHANGED <<popups, parent, output, output_box, geometry>>
    /\ PopupFrame

PopupSignals == {"popup_map", "popup_unmap", "popup_commit"}
Anchors == 0..MaxCoord

\* the workspaces shown on an output
ShownGroups == {ScreenGeom[s].group : s \in Screens}
PlaceMargins == {NoMargin, IntMargin(1)}
PlaceSizes == {<<MaxSize, MaxSize + 1>>}
MoveDeltas == {<<1, 0>>, <<-1, 0>>, <<0, 1>>, <<0, -1>>}
ResizeDeltas == {<<-1000, 1>>, <<1, -1>>}

\* the float state machine, placement, lifecycle signals and commands of the
\* commanded windows
Next ==
    \/ \E w \in Commanded : OnMap(w)
    \/ \E w \in Commanded : OnUnmap(w)
    \/ \E w \in Commanded, nw \in Sizes, nh \in Sizes : OnCommit(w, nw, nh)
    \/ \E w \in Commanded, a \in BOOLEAN, b \in BOOLEAN : OnRequestFullscreen(w, a, b)
    \/ \E w \in Commanded, b \in BOOLEAN : SetFloating(w, b)
    \/ \E w \in Commanded, b \in BOOLEAN : SetFullscreen(w, b)
    \/ \E w \in Commanded, b \in BOOLEAN : SetMaximized(w, b)
    \/ \E w \in Commanded, b \in BOOLEAN : SetMinimized(w, b)
    \/ \E w \in Commanded, d \in MoveDeltas : CmdMoveFloating(w, d[1], d[2])
    \/ \E w \in Commanded, d \in ResizeDeltas : CmdResizeFloating(w, d[1], d[2])
    \/ \E w \in Commanded, px \in XCoords, py \in YCoords :
          CmdSetPositionFloating(w, px, py)
    \/ \E w \in Commanded, pw \in Sizes, ph \in Sizes :
          CmdSetSizeFloating(w, pw, ph)
    \/ \E w \in Commanded, px \in XCoords, py \in YCoords, sz \in PlaceSizes,
          above \in BOOLEAN, margin \in PlaceMargins :
          CmdPlace(w, px, py, sz[1], sz[2], above, margin)
    \/ \E w \in Commanded : CmdBringToFront(w)
    \/ \E w \in Commanded, g \in GroupNames : Togroup(w, Some(g), g)
    \/ \E w \in Commanded, cg \in ShownGroups : Togroup(w, None, cg)
    \/ \E w \in Commanded : OnDestroy(w)

Spec == Init /\ [][Next]_vars

\* the stacking list under the lifecycle signals and stacking commands of
\* every window
NextStack ==
    \/ \E w \in Windows : OnMap(w)
    \/ \E w \in Windows : OnUnmap(w)
    \/ \E w \in Windows : OnDestroy(w)
    \/ \E w \in Windows : CmdBringToFront(w)
    \/ \E w \in Windows : Hide(w)
    \/ \E w \in Windows : Unhide(w)
    \/ SeatDestroy
    \/ \E w \in Windows, sz \in PlaceSizes, above \in BOOLEAN :
          CmdPlace(w, 0, 0, sz[1], sz[2], above, NoMargin)

SpecStack == Init /\ [][NextStack]_vars

\* the popups the lifecycle slice creates: a popup and one more
PopupPair == {"p1", "p2"}

\* the popup hierarchy of the commanded windows under the signals of the
\* windows and of their popups, for at most two popups
NextPopup ==
    \/ \E w \in Commanded, bx \in Anchors, by \in Anchors :
          NewPopup \in PopupPair /\ OnNewPopup(w, bx, by)
    \/ \E p \in PopupPair :
          NewPopup \in PopupPair /\ PopupOnNewPopup(p, 0, 0)
    \/ \E p \in PopupPair, sig \in PopupSignals : PopupOnSignal(p, sig)
    \/ \E p \in PopupPair : PopupOnDestroy(p)
    \/ \E w \in Commanded : OnDestroy(w)
    \/ \E w \in Commanded : OnMap(w)
    \/ \E w \in Commanded : OnUnmap(w)
    \/ \E w \in Commanded, px \in XCoords, py \in YCoords, sz \in PlaceSizes :
          CmdPlace(w, px, py, sz[1], sz[2], FALSE, NoMargin)

SpecPopup == Init /\ [][NextPopup]_vars

\* the keyboard focus under the map and unmap signals of the windows and of
\* the layer surfaces, up to and after the destruction of the seat
NextFocus ==
    \/ \E w \in Windows : OnMap(w)
    \/ \E w \in Windows : OnUnmap(w)
    \/ \E t \in Statics : StaticOnMap(t)
    \/ \E t \in Statics : StaticOnUnmap(t)
    \/ \E t \in Statics : KeyboardFocus(t)
    \/ SeatDestroy

SpecFocus == Init /\ [][NextFocus]_vars

\* the construction of popups and of popups nested in popups, to the depth
\* of three, with every offset of a popup in its parent, on windows that move
NextNest ==
    \/ \E w \in Commanded, bx \in Anchors, by \in Anchors : OnNewPopup(w, bx, by)
    \/ \E p \in Popups, bx \in Anchors, by \in Anchors :
          PopupOnNewPopup(p, bx, by)
    \/ \E w \in Commanded, px \in XCoords, py \in YCoords, sz \in PlaceSizes :
          CmdPlace(w, px, py, sz[1], sz[2], FALSE, NoMargin)

SpecNest == Init /\ [][NextNest]_vars

\* a margin on one side only, for each side: [top, right, bottom, left]
SideMargins == {ListMargin(<<1, 0, 0, 0>>), ListMargin(<<0, 1, 0, 0>>),
                ListMargin(<<0, 0, 1, 0>>), ListMargin(<<0, 0, 0, 1>>)}
LayoutMargins == PlaceMargins \cup SideMargins

\* placement of the commanded windows by a layout, with every kind of margin
NextPlace ==
    \/ \E w \in Commanded : OnMap(w)
    \/ \E w \in Commanded : OnUnmap(w)
    \/ \E w \in Commanded, nw \in Sizes, nh \in Sizes : OnCommit(w, nw, nh)
    \/ \E w \in Commanded, px \in XCoords, py \in YCoords, sz \in PlaceSizes,
          above \in BOOLEAN, margin \in LayoutMargins :
          CmdPlace(w, px, py, sz[1], sz[2], above, margin)

SpecPlace == Init /\ [][NextPlace]_vars

\* the layer surfaces of one output under their map and unmap signals and
\* the layer changes of their clients
NextLayer ==
    \/ \E t \in Statics : StaticOnMap(t)
    \/ \E t \in Statics : StaticOnUnmap(t)
    \/ \E t \in Statics, l \in LayerNames : SetPendingLayer(t, l)

SpecLayer == Init /\ [][NextLayer]_vars

\* the setters of the float state machine on the commanded windows, mapped
\* or not, with or without a workspace
NextSetters ==
    \/ \E w \in Commanded : OnMap(w)
    \/ \E w \in Commanded : OnUnmap(w)
    \/ \E w \in Commanded, nw \in Sizes, nh \in Sizes : OnCommit(w, nw, nh)
    \/ \E w \in Commanded, b \in BOOLEAN : SetFloating(w, b)
    \/ \E w \in Commanded, b \in BOOLEAN : SetFullscreen(w, b)
    \/ \E w \in Commanded, b \in BOOLEAN : SetMaximized(w, b)
    \/ \E w \in Commanded, b \in BOOLEAN : SetMinimized(w, b)
    \/ \E w \in Commanded, g \in GroupNames : Togroup(w, Some(g), g)

SpecSetters == Init /\ [][NextSetters]_vars

OptCoords == {None} \cup {Some(v) : v \in XCoords}
OptSizes == {None, Some(MaxSize)}
NoMove == <<None, None, 0, 0>>
NoResize == <<None, None, 0, 0>>
\* the position arguments of _tweak_float: x and y given or not, with a delta
TweakMoves ==
    {<<ox, oy, d[1], d[2]>> :
        ox \in OptCoords, oy \in OptCoords, d \in MoveDeltas \cup {<<0, 0>>}}
\* the size arguments of _tweak_float: w and h given or not, with a delta
\* that may be far below the size
TweakResizes ==
    {<<ow, oh, d[1], d[2]>> :
        ow \in OptSizes, oh \in OptSizes,
        d \in {<<0, 0>>, <<-1000, 1>>, <<1, -1000>>, <<-1000, -1000>>}}

\* _tweak_float on the commanded windows, mapped or not, on any workspace
NextTweak ==
    \/ \E w \in Commanded : OnMap(w)
    \/ \E w \in Commanded : OnUnmap(w)
    \/ \E w \in Commanded, nw \in Sizes, nh \in Sizes : OnCommit(w, nw, nh)
    \/ \E w \in Commanded, g \in Groups : Togroup(w, Some(g), g)
    \/ \E w \in Commanded, mv \in TweakMoves : TweakFloat(w, mv, NoResize)
    \/ \E w \in Commanded, sz \in TweakResizes : TweakFloat(w, NoMove, sz)

SpecTweak == Init /\ [][NextTweak]_vars

\* ------------------------------------------------------------------ claims
Occurrences(l, w) == Cardinality({i \in 1..Len(l) : l[i] = w})

\* C1: in every reached state, for every regular window, the mapped flag is
\* true if and only if the window occurs exactly once in the mapped-window
\* list, and the list never holds a window twice.
C1_MappedIffOnceInList ==
    \A w \in Windows :
        /\ Occurrences(mapped_windows, w) <= 1
        /\ mapped[w] <=> Occurrences(mapped_windows, w) = 1

\* a map signal was handled for a window that was already mapped below two
\* others: it is still in the list once, and not at its tail
C1_Witness ==
    /\ out.op = "map"
    /\ mapped[out.win]
    /\ Len(mapped_windows) = 3
    /\ mapped_windows[1] = out.win

\* C8 (as claimed): once the destroy signal of a window has been handled the
\* window is in no stacking list.
C8_DestroyedNotStacked ==
    \A w \in Windows : released[w] >= 1 => w \notin Range(mapped_windows)

\* the list new is the list old with w moved to its tail: the same entries,
\* the same number of times, w last and the others in their old order
MovedToTail(old, new, w) ==
    LET Other(u) == u # w
    IN  /\ Len(new) = Len(old)
        /\ \A u \in Windows : Occurrences(new, u) = Occurrences(old, u)
        /\ new[Len(new)] = w
        /\ SelectSeq(new, Other) = SelectSeq(old, Other)

\* C9: bring-to-front, and place with above set, on a mapped window leave the
\* stacking list a permutation of its previous contents with that window
\* last and the order of the others unchanged; bring-to-front on an unmapped
\* window leaves the list unchanged.
C9_BringToFrontPermutes ==
    [][\A w \in Windows :
          /\ out'.win = w
          /\ \/ out'.op = "bring_to_front"
             \/ out'.op = "place" /\ out'.arg /\ mapped[w]
          => IF mapped[w]
             THEN MovedToTail(mapped_windows, mapped_windows', w)
             ELSE mapped_windows' = mapped_windows]_vars

\* bring-to-front was handled for a mapped window with two others mapped
C9_Witness ==
    /\ out.op = "bring_to_front"
    /\ mapped[out.win]
    /\ Len(mapped_windows) = 3
    /\ mapped_windows[3] = out.win

SetterOps == {"set_floating", "set_fullscreen", "set_maximized",
              "set_minimized", "request_fullscreen"}
TweakOps == {"move_floating", "resize_floating", "set_position_floating",
             "set_size_floating"}
IsCommit == \E w \in Commanded, nw \in Sizes, nh \in Sizes : OnCommit(w, nw, nh)

HasOutput(w) == group[w] # NoGroup /\ GroupScreen(group[w]) # NoScreen
Changed == float_state[out.win] # out.pre
Placed == Len(out.size) = 1
\* the state a setter call asks for
Requested ==
    IF ~out.arg THEN NOT_FLOATING
    ELSE IF out.op = "set_floating" THEN FLOATING
    ELSE IF out.op = "set_maximized" THEN MAXIMIZED
    ELSE IF out.op = "set_minimized" THEN MINIMIZED
    ELSE FULLSCREEN

\* C3 (as claimed): every setter call that changes float_state to FLOATING,
\* FULLSCREEN or MAXIMIZED places the window, marks it floating in its
\* workspace and fires float_change exactly once, with or without a
\* workspace; a call that asks for the current state fires nothing.
C3_ChangePlacesMarksFiresOnce ==
    out.op \in SetterOps =>
        /\ Changed /\ float_state[out.win] \in {FLOATING, FULLSCREEN, MAXIMIZED}
           => Placed /\ out.marked = <<TRUE>> /\ out.fired = 1
        /\ out.pre = Requested => out.fired = 0

\* C3 (amended): a setter call that changes float_state to FULLSCREEN or
\* MAXIMIZED, or to FLOATING on a window whose workspace has an output,
\* places the window, marks it floating in its workspace and fires
\* float_change exactly once; set_floating(true) on a window without a
\* workspace or whose workspace has no output sets FLOATING with no
\* placement, no mark and no float_change; a call that asks for the current
\* state fires nothing.
C3_ChangePlacesMarksFiresOnceWithOutput ==
    out.op \in SetterOps =>
        /\ Changed /\ float_state[out.win] \in {FULLSCREEN, MAXIMIZED}
           => Placed /\ out.marked = <<TRUE>> /\ out.fired = 1
        /\ Changed /\ float_state[out.win] = FLOATING /\ HasOutput(out.win)
           => Placed /\ out.marked = <<TRUE>> /\ out.fired = 1
        /\ Changed /\ float_state[out.win] = FLOATING /\ ~HasOutput(out.win)
           => ~Placed /\ out.marked = <<>> /\ out.fired = 0
        /\ out.pre = Requested => out.fired = 0

\* set_floating(true) was called before the window joined a workspace
C3_Witness ==
    /\ out.op = "set_floating"
    /\ out.arg
    /\ out.pre = NOT_FLOATING
    /\ float_state[out.win] = FLOATING
    /\ group[out.win] = NoGroup
    /\ out.fired = 0

\* the step is the call op(arg) on w, and the last handler before it (commits
\* aside) was the call op0(arg0) on w
CallAfterCall(w, op0, arg0, op, arg) ==
    /\ out.op = op0 /\ out.arg = arg0 /\ out.win = w
    /\ out'.op = op /\ out'.arg = arg /\ out'.win = w
    /\ ~IsCommit

\* C4 (as claimed): for a NOT_FLOATING window with a workspace,
\* set_floating(true) followed by set_floating(false) leaves float_state
\* NOT_FLOATING and float_width/float_height equal to the surface's size
\* just before the second call, whatever the surface committed in between.
C4_ToggleFloatingTwice ==
    [][\A w \in Windows :
          /\ CallAfterCall(w, "set_floating", TRUE, "set_floating", FALSE)
          /\ out.pre = NOT_FLOATING
          /\ group[w] # NoGroup
          => /\ float_state'[w] = NOT_FLOATING
             /\ float_width'[w] = width[w]
             /\ float_height'[w] = height[w]]_vars

\* C5 (as claimed): for a window with a workspace and output, from every
\* float state, set_fullscreen(true) followed by set_fullscreen(false)
\* leaves float_state NOT_FLOATING, and the exit does not overwrite the
\* float memory.
C5_FullscreenRoundTrip ==
    [][\A w \in Windows :
          /\ CallAfterCall(w, "set_fullscreen", TRUE, "set_fullscreen", FALSE)
          /\ HasOutput(w)
          => /\ float_state'[w] = NOT_FLOATING
             /\ float_x'[w] = float_x[w]
             /\ float_y'[w] = float_y[w]
             /\ float_width'[w] = float_width[w]
             /\ float_height'[w] = float_height[w]]_vars

\* C6 (as claimed): set_fullscreen(true) or set_maximized(true) on a window
\* with no workspace completes without raising.
C6_NoWorkspaceNoFault ==
    /\ out.op \in {"set_fullscreen", "set_maximized"}
    /\ out.arg
    /\ group[out.win] = NoGroup
    => out.fault = NoFault

\* C10 (as claimed): a FLOATING window on a workspace with an output, at
\* rectangle R, that is un-floated and floated again on the same workspace
\* is placed at R again: the position it had and the size it had.
C10_FloatReturnsToRectangle ==
    [][\A w \in Windows :
          /\ CallAfterCall(w, "set_floating", FALSE, "set_floating", TRUE)
          /\ out.pre = FLOATING
          /\ HasOutput(w)
          /\ mapped[w]
          => /\ x'[w] = x[w]
             /\ y'[w] = y[w]
             /\ out'.size = << <<float_width[w], float_height[w]>> >>]_vars

\* the popups below an object in the popup hierarchy
RECURSIVE Descendants(_)
Descendants(o) ==
    LET kids == {p \in Popups : parent[p] = o}
    IN  kids \cup UNION {Descendants(k) : k \in kids}

\* C7 (as claimed): when the destroy signal of a window that owns a popup
\* which owns a nested popup has been handled, the listeners of all three
\* objects are released, each exactly once.
C7_DestroyReleasesAllThree ==
    /\ out.op = "destroy"
    /\ parent["p1"] = out.win
    /\ parent["p2"] = "p1"
    => \A o \in {out.win} \cup Descendants(out.win) :
          released[o] = 1 /\ ~listening[o]

SignalOps == {"map", "unmap", "new_popup", "popup_map", "popup_unmap",
              "popup_commit", "popup_new_popup"}
DestroyOps == {"destroy", "popup_destroy"}

\* C7 (amended): handling the destroy signal of a window releases the
\* listeners of the window, once, and leaves the listeners of its popups
\* attached; the listeners of a popup are released, once, when its own
\* destroy signal is handled; no object's listeners are released twice, and
\* no handler of an object runs once its listeners are released.
C7_EachReleasedByItsOwnDestroy ==
    /\ [](/\ \A o \in Objects : released[o] <= 1
          /\ \A o \in Objects : listening[o] => released[o] = 0
          /\ out.op \in DestroyOps
             => released[out.win] = 1 /\ ~listening[out.win]
          /\ out.op \in SignalOps => released[out.win] = 0)
    /\ [][\A o \in Objects :
             released'[o] # released[o]
             => out'.op \in DestroyOps /\ out'.win = o]_vars

\* a window, its popup and the nested popup have each had their destroy
\* signal handled, and each was released once
C7_Witness ==
    /\ parent["p1"] = "w1"
    /\ parent["p2"] = "p1"
    /\ \A o \in {"w1", "p1", "p2"} : released[o] = 1 /\ ~listening[o]

\* the four sides of a margin argument, read off the argument itself
MarginTop(margin) ==
    IF margin.kind = "none" THEN 0
    ELSE IF margin.kind = "int" THEN margin.v[1] ELSE margin.v[1]
MarginRight(margin) ==
    IF margin.kind = "none" THEN 0
    ELSE IF margin.kind = "int" THEN margin.v[1] ELSE margin.v[2]
MarginBottom(margin) ==
    IF margin.kind = "none" THEN 0
    ELSE IF margin.kind = "int" THEN margin.v[1] ELSE margin.v[3]
MarginLeft(margin) ==
    IF margin.kind = "none" THEN 0
    ELSE IF margin.kind = "int" THEN margin.v[1] ELSE margin.v[4]

\* C11: place with a margin given as a scalar m (m on all four sides) or as
\* a list [top, right, bottom, left] stores the position (x + left, y + top)
\* on the window and requests the size (width - left - right,
\* height - top - bottom) from the surface; margin 10 on (0, 0, 100, 100)
\* gives (10, 10, 80, 80); with no margin the rectangle is applied unchanged.
C11_PlaceAppliesMargin ==
    /\ PlaceRect(0, 0, 100, 100, IntMargin(10))
          = [x |-> 10, y |-> 10, width |-> 80, height |-> 80]
    /\ [][\A w \in Commanded, px \in XCoords, py \in YCoords, sz \in PlaceSizes,
             above \in BOOLEAN, margin \in LayoutMargins :
             /\ out'.op = "place" /\ out'.win = w /\ out'.arg = above
             /\ CmdPlace(w, px, py, sz[1], sz[2], above, margin)
             => /\ x'[w] = px + MarginLeft(margin)
                /\ y'[w] = py + MarginTop(margin)
                /\ out'.size =
                     << <<sz[1] - MarginLeft(margin) - MarginRight(margin),
                          sz[2] - MarginTop(margin) - MarginBottom(margin)>> >>
                /\ margin = NoMargin
                   => x'[w] = px /\ y'[w] = py /\ out'.size = <<sz>>]_vars

\* a window was placed with a margin on its left side only: it is one to
\* the right of the origin and one narrower than the size asked for
C11_Witness ==
    /\ out.op = "place"
    /\ x[out.win] = 1 /\ y[out.win] = 0
    /\ out.size = << <<MaxSize - 1, MaxSize + 1>> >>

\* C12: for every current size and every combination of explicit w/h and
\* deltas dw/dh, large negative ones included, the width and height that
\* _tweak_float passes on to placement are never negative: each is
\* max(0, base + delta), the base being the explicit value or the current size.
C12_TweakSizeClamped ==
    [][\A w \in Windows :
          out'.op = "tweak_float" /\ out'.win = w /\ ~IsCommit
          => LET sz == out'.arg
                 bw == IF sz[1] = None THEN width[w] ELSE sz[1][1]
                 bh == IF sz[2] = None THEN height[w] ELSE sz[2][1]
                 rw == IF bw + sz[3] > 0 THEN bw + sz[3] ELSE 0
                 rh == IF bh + sz[4] > 0 THEN bh + sz[4] ELSE 0
             IN  /\ out'.size = << <<rw, rh>> >>
                 /\ out'.size[1][1] >= 0
                 /\ out'.size[1][2] >= 0]_vars

\* _tweak_float ran with dw far below the width of a surface of the largest
\* size: the width asked for is 0, the height one more than the surface's
C12_Witness ==
    /\ out.op = "tweak_float"
    /\ width[out.win] = MaxSize
    /\ height[out.win] = MaxSize
    /\ out.size = << <<0, MaxSize + 1>> >>

\* the output under the center of w once the step's move and resize are
\* applied: the new position and the size asked for
OutputUnderNewCenter(w) ==
    find_closest_screen(x'[w] + (out'.size[1][1] \div 2),
                        y'[w] + (out'.size[1][2] \div 2))

\* C20 (as claimed): when _tweak_float runs on a window that has a workspace
\* and the window's center, after the requested move/resize, lies on another
\* output than the one showing its workspace, the window goes to that
\* output's workspace and that output becomes the focused one; when the
\* center stays on the output of its workspace, the workspace and the focused
\* output are unchanged; so after every move/resize command the window's
\* workspace is the workspace of the output under its center.
C20_WorkspaceFollowsNewCenter ==
    [][\A w \in Windows :
          /\ out'.op = "tweak_float" /\ out'.win = w /\ ~IsCommit
          /\ out'.fault = NoFault
          /\ group[w] # NoGroup
          => IF OutputUnderNewCenter(w) # GroupScreen(group[w])
             THEN /\ group'[w] = ScreenGeom[OutputUnderNewCenter(w)].group
                  /\ out'.focus_screen = <<OutputUnderNewCenter(w)>>
             ELSE /\ group'[w] = group[w]
                  /\ out'.focus_screen = <<>>]_vars

\* the output o contains the desktop point (px, py)
Contains(o, px, py) ==
    /\ ScreenGeom[o].x <= px /\ px < ScreenGeom[o].x + ScreenGeom[o].width
    /\ ScreenGeom[o].y <= py /\ py < ScreenGeom[o].y + ScreenGeom[o].height

\* the example of C13: an output of 200 x 300 at desktop (100, 0), and the
\* constraint box of a popup anchored at (5, 5) on a window at (100, 100)
C13_Output == [x |-> 100, y |-> 0, width |-> 200, height |-> 300]
C13_Box == translate_box(C13_Output, 100 + 5, 100 + 5)

\* C13 (as claimed): a first-level popup anchored at local (5,5) on a window
\* at desktop (100,100) on an output whose desktop origin is (100,0) gets a
\* constraint rectangle whose local origin is (0,100), with the output's
\* width and height: the translation that built the box of each first-level
\* popup gives that rectangle on the example.
C13_BoxOriginZeroHundred ==
    \A p \in Popups :
        parent[p] \in Windows
        => /\ C13_Box.x = 0 /\ C13_Box.y = 100
           /\ C13_Box.width = C13_Output.width
           /\ C13_Box.height = C13_Output.height

\* C13 (amended): the constraint rectangle of a first-level popup is the
\* geometry of the output under the popup's anchor with its origin taken
\* relative to the anchor's desktop position (window position + anchor):
\* for the anchor (5,5) on a window at (100,100) and an output at (100,0)
\* the origin is (-5,-105), with the output's width and height.
C13_BoxRelativeToAnchor ==
    /\ C13_Box = [x |-> -5, y |-> -105,
                  width |-> C13_Output.width, height |-> C13_Output.height]
    /\ [][\A w \in Windows, bx \in Anchors, by \in Anchors, o \in Screens :
             /\ out'.op = "new_popup" /\ out'.win = w
             /\ geometry'[NewPopup] = <<bx, by>>
             /\ OnNewPopup(w, bx, by) /\ Contains(o, x[w] + bx, y[w] + by)
             => /\ output'[NewPopup] = o
                /\ output_box'[NewPopup] =
                     [x |-> ScreenGeom[o].x - (x[w] + bx),
                      y |-> ScreenGeom[o].y - (y[w] + by),
                      width |-> ScreenGeom[o].width,
                      height |-> ScreenGeom[o].height]]_vars

\* the first popup of a window at the top of its output was created with an
\* anchor one below the window's origin: the box starts one above the anchor
C13_Witness ==
    /\ out.op = "new_popup"
    /\ parent["p1"] = out.win /\ parent["p2"] = NoParent
    /\ y[out.win] = ScreenGeom[output["p1"]].y
    /\ output_box["p1"].y = -1

\* C14: togroup with a group name that does not exist raises a command error
\* to the caller and changes nothing: the window is not hidden, and its
\* workspace, its position and the stacking list are as before the call.
C14_TogroupUnknownChangesNothing ==
    [][\A w \in Windows, name \in GroupNames \ Groups :
          Togroup(w, Some(name), name)
          => /\ out'.fault = "CommandError"
             /\ UNCHANGED <<mapped, mapped_windows, group, x, y, float_state,
                            float_width, float_height, focused_surface>>
             /\ out'.marked = <<>> /\ out'.fired = 0 /\ out'.size = <<>>]_vars

\* togroup with an unknown name was called on a mapped window of a workspace
C14_Witness ==
    /\ out.op = "togroup"
    /\ out.fault = "CommandError"
    /\ mapped[out.win]
    /\ group[out.win] \in Groups

\* the step is the call op(arg) on w
Call(w, op, arg) ==
    out'.op = op /\ out'.arg = arg /\ out'.win = w /\ ~IsCommit

\* C15: set_minimized(true) on a window that is not MINIMIZED ends with
\* float_state MINIMIZED and the window unmapped and out of the stacking
\* list, leaves x, y and the float memory unchanged and requests no size;
\* set_minimized(false) changes the state, to NOT_FLOATING, only if the
\* window is MINIMIZED.
C15_MinimizeHidesAndKeepsGeometry ==
    [][\A w \in Windows :
          /\ Call(w, "set_minimized", TRUE) /\ float_state[w] # MINIMIZED
             => /\ float_state'[w] = MINIMIZED
                /\ ~mapped'[w]
                /\ w \notin Range(mapped_windows')
                /\ x'[w] = x[w] /\ y'[w] = y[w]
                /\ float_x'[w] = float_x[w] /\ float_y'[w] = float_y[w]
                /\ float_width'[w] = float_width[w]
                /\ float_height'[w] = float_height[w]
                /\ out'.size = <<>>
          /\ Call(w, "set_minimized", FALSE) /\ float_state'[w] # float_state[w]
             => float_state[w] = MINIMIZED /\ float_state'[w] = NOT_FLOATING]_vars

\* a window maximized on the output with a bar was minimized: it is unmapped
\* and still at the position below the bar
C15_Witness ==
    /\ out.op = "set_minimized" /\ out.arg
    /\ out.pre = MAXIMIZED
    /\ float_state[out.win] = MINIMIZED
    /\ ~mapped[out.win]
    /\ y[out.win] = ScreenGeom["s1"].dy
    /\ focused_surface = NoSurface

\* C16 (as claimed): for a window with a workspace and output,
\* set_fullscreen(true) ends with float_state FULLSCREEN and the position and
\* requested size of the full output, from every starting state, MINIMIZED
\* (unmapped) included; set_maximized(true) likewise ends MAXIMIZED on the
\* output's usable area; the call never fails part-way.
C16_FullscreenMaximizeReachOutput ==
    [][\A w \in Windows :
          HasOutput(w)
          => LET screen == ScreenGeom[GroupScreen(group[w])]
             IN  /\ Call(w, "set_fullscreen", TRUE)
                    => /\ out'.fault = NoFault
                       /\ float_state'[w] = FULLSCREEN
                       /\ x'[w] = screen.x /\ y'[w] = screen.y
                       /\ out'.size = << <<screen.width, screen.height>> >>
                 /\ Call(w, "set_maximized", TRUE)
                    => /\ out'.fault = NoFault
                       /\ float_state'[w] = MAXIMIZED
                       /\ x'[w] = screen.dx /\ y'[w] = screen.dy
                       /\ out'.size = << <<screen.dwidth, screen.dheight>> >>]_vars

\* C17 (as claimed): set_floating(false) on a window in any floating state
\* completes without a fault, ends with float_state NOT_FLOATING and fires
\* float_change exactly once, also when the window has no workspace.
C17_UnfloatNeverFaults ==
    /\ out.op = "set_floating" /\ ~out.arg
    /\ out.pre # NOT_FLOATING
    => /\ out.fault = NoFault
       /\ float_state[out.win] = NOT_FLOATING
       /\ out.fired = 1

\* the step is a setter call on w that its guard turns into a no-op
GuardedCall(w) ==
    \/ Call(w, "set_floating", TRUE) /\ float_state[w] # NOT_FLOATING
    \/ Call(w, "set_floating", FALSE) /\ float_state[w] = NOT_FLOATING
    \/ Call(w, "set_fullscreen", FALSE) /\ float_state[w] # FULLSCREEN
    \/ Call(w, "set_maximized", FALSE) /\ float_state[w] # MAXIMIZED
    \/ Call(w, "set_minimized", FALSE) /\ float_state[w] # MINIMIZED
    \/ Call(w, "set_minimized", TRUE) /\ float_state[w] = MINIMIZED

\* C18: the guarded setter calls are no-ops: set_floating(true) when the
\* state is not NOT_FLOATING, set_floating(false) when NOT_FLOATING,
\* set_fullscreen(false) when not FULLSCREEN, set_maximized(false) when not
\* MAXIMIZED, set_minimized(false) when not MINIMIZED and set_minimized(true)
\* when MINIMIZED leave float_state, x, y, the float memory, the stacking
\* list and the mapped flag unchanged and fire no float_change.
C18_GuardedSettersAreNoOps ==
    [][\A w \in Windows :
          GuardedCall(w)
          => /\ UNCHANGED <<float_state, x, y, float_x, float_y, float_width,
                            float_height, mapped_windows, mapped>>
             /\ out'.fired = 0
             /\ out'.fault = NoFault]_vars

\* set_minimized(true) was called on a MINIMIZED window that had been mapped
\* again: it is still mapped
C18_Witness ==
    /\ out.op = "set_minimized" /\ out.arg
    /\ out.pre = MINIMIZED
    /\ float_state[out.win] = MINIMIZED
    /\ mapped[out.win]
    /\ out.win \in Range(mapped_windows)

\* the layers whose list holds the layer surface t
LayersHolding(t) == {l \in LayerNames : t \in Range(layers[l])}

\* C19 (as claimed): after any sequence of map signals, unmap signals and
\* changes of the pending layer, a layer surface is in at most one of its
\* output's per-layer lists; once a map or unmap signal has been handled its
\* mapped flag is true if and only if it is exactly once in the list of its
\* layer, and an unmapped surface is in no layer list.
C19_LayerSurfaceInItsLayerOnly ==
    \A t \in Statics :
        /\ Cardinality(LayersHolding(t)) <= 1
        /\ out.op \in {"static_map", "static_unmap"} /\ out.win = t
           => /\ static_mapped[t]
                 <=> Occurrences(layers[pending_layer[t]], t) = 1
              /\ ~static_mapped[t] => LayersHolding(t) = {}

\* ------------------------------------------------------- C21: nested popups
\* the popup this step constructs
IsNew(q) == parent[q] = NoParent /\ parent'[q] # NoParent

\* the anchor of a popup: the point of the layout closest to the desktop
\* position of its geometry, as line 597 takes it for a first-level popup
anchor(q) ==
    LET pp == position(q) IN closest_point(pp[1], pp[2])

\* the points of the layout: the two outputs side by side
LayoutXs == ScreenGeom["s1"].x .. (ScreenGeom["s2"].x + ScreenGeom["s2"].width - 1)
LayoutYs == ScreenGeom["s1"].y .. (ScreenGeom["s1"].y + ScreenGeom["s1"].height - 1)

\* C21 (as claimed): every popup is constructed with a constraint rectangle
\* that is its output's geometry relative to the popup's own anchor, and a
\* nested popup with the output of its parent popup, at every depth of
\* nesting and for every offset of the popup in its parent.
C21_BoxRelativeToOwnAnchor ==
    [][\A q \in Popups :
          IsNew(q)
          => /\ parent'[q] \in Popups => output'[q] = output[parent'[q]]
             /\ output_box'[q] =
                  translate_box(ScreenGeom[output'[q]],
                                anchor(q)'[1], anchor(q)'[2])]_vars

\* C21 (amended): a first-level popup is constructed with the output under
\* its anchor and with that output's geometry relative to the anchor; a
\* nested popup has the output and the very rectangle of its parent popup,
\* whatever its own offset, so at every depth the rectangle of a popup is
\* its output's geometry (same width and height) relative to a point of
\* the layout that does not depend on the nested popup's own anchor.
C21_NestedInheritsBox ==
    /\ [](\A q \in Popups :
            /\ parent[q] \in Popups
               => output[q] = output[parent[q]]
                  /\ output_box[q] = output_box[parent[q]]
            /\ parent[q] # NoParent
               => \E lx \in LayoutXs, ly \in LayoutYs :
                     /\ Contains(output[q], lx, ly)
                     /\ output_box[q] =
                          translate_box(ScreenGeom[output[q]], lx, ly))
    /\ [][\A q \in Popups :
             IsNew(q) /\ parent'[q] \in Windows
             => /\ output'[q] = output_at(anchor(q)'[1], anchor(q)'[2])
                /\ output_box'[q] =
                     translate_box(ScreenGeom[output'[q]],
                                   anchor(q)'[1], anchor(q)'[2])]_vars

\* a popup nested in a popup nested in a first-level popup has just been
\* constructed, both nested ones away from their parents' origins, and its
\* rectangle is the first-level popup's, not the one of its own anchor
C21_Witness ==
    /\ out.op = "popup_new_popup" /\ out.win = "p2"
    /\ parent["p1"] \in Windows /\ parent["p2"] = "p1" /\ parent["p3"] = "p2"
    /\ geometry["p2"] # <<0, 0>> /\ geometry["p3"] # <<0, 0>>
    /\ output_box["p3"] = output_box["p1"]
    /\ output_box["p3"] #
          translate_box(ScreenGeom[output["p3"]], anchor("p3")[1], anchor("p3")[2])

\* ---------------------------------------------------- C22: focus and unmap
Surfaces == Windows \cup Statics

====
